---- MODULE Spec2Model ----
(***************************************************************************)
(* A model of dronereg.py: ReleasableAircraft.read_file, format_date,      *)
(* is_drone and parse_drone_data.                                          *)
(*                                                                         *)
(* Every field of a table is a Python str, modelled as a tuple of          *)
(* one-character strings, so that str.strip and time.strptime are computed *)
(* character by character.  None is the model value NoneVal.               *)
(***************************************************************************)
EXTENDS Integers, Sequences, FiniteSets, TLC

VARIABLES
  database,    \* self._database: [valid, members]; members maps a name to Missing or its rows
  outfile,     \* the file at `outfile`: [exists, lines]
  pc,          \* the position of parse_drone_data
  pos,         \* raw rows of the current member the csv reader has consumed
  mfr_mdls,    \* the dict mfr_mdls, as a set of [key, val] items
  outfile0,    \* history: the file at `outfile` before the run
  trace,       \* history: one entry per raw row consumed, in order
  fd,          \* a call of format_date: [dt, ret, called]
  rf           \* a run of read_file on one member: [header, rows, state, n, log, yielded]

vars == <<database, outfile, pc, pos, mfr_mdls, outfile0, trace, fd, rf>>

\* ------------------------------------------------------------------------
\* Bounds
\* ------------------------------------------------------------------------
MaxRows == 3       \* data rows of the archive, all three members together
MaxTail == 4       \* characters of a date string after its four year characters
MaxShort == 3      \* length of the date strings shorter than a year
MaxCols == 2       \* fields a header line keeps after its last column is dropped
MaxRfRows == 3     \* data rows of the member read_file is run on alone

\* ------------------------------------------------------------------------
\* Python str helpers
\* ------------------------------------------------------------------------
\* None, a value no str equals
NoneVal == <<"None">>

DigitChars == <<"0", "1", "2", "3", "4", "5", "6", "7", "8", "9">>

IsDigit(c) == \E n \in 1..10 : DigitChars[n] = c

DigitVal(c) == (CHOOSE n \in 1..10 : DigitChars[n] = c) - 1

\* s[i] as Python evaluates the regex: no character past the end.
At(s, i) == IF i >= 1 /\ i <= Len(s) THEN s[i] ELSE "$"

InRange(c, lo, hi) == IsDigit(c) /\ DigitVal(c) >= lo /\ DigitVal(c) <= hi

RECURSIVE LStrip(_)
LStrip(s) == IF s # <<>> /\ Head(s) = " " THEN LStrip(Tail(s)) ELSE s

RECURSIVE RStrip(_)
RStrip(s) ==
  IF s # <<>> /\ s[Len(s)] = " " THEN RStrip(SubSeq(s, 1, Len(s) - 1)) ELSE s

\* str.strip()
Strip(s) == RStrip(LStrip(s))

\* seq[:-1]
DropLast(s) == IF Len(s) = 0 THEN <<>> ELSE SubSeq(s, 1, Len(s) - 1)

\* ------------------------------------------------------------------------
\* format_date: time.strptime(dt, '%Y%m%d') then time.strftime('%Y-%m-%d')
\* ------------------------------------------------------------------------
\* %Y is (?P<Y>\d\d\d\d)
YMatch(s) == \A i \in 1..4 : IsDigit(At(s, i))

\* %m is (?P<m>1[0-2]|0[1-9]|[1-9]): the lengths of the alternatives that
\* match at i, in the order the regex tries them.
MAlts(s, i) ==
  (IF \/ (At(s, i) = "1" /\ InRange(At(s, i + 1), 0, 2))
      \/ (At(s, i) = "0" /\ InRange(At(s, i + 1), 1, 9))
   THEN <<2>> ELSE <<>>)
  \o (IF InRange(At(s, i), 1, 9) THEN <<1>> ELSE <<>>)

\* %d is (?P<d>3[0-1]|[1-2]\d|0[1-9]|[1-9]| [1-9]): the length of the first
\* alternative that matches at j, 0 when none does.
DLen(s, j) ==
  IF \/ (At(s, j) = "3" /\ InRange(At(s, j + 1), 0, 1))
     \/ (InRange(At(s, j), 1, 2) /\ IsDigit(At(s, j + 1)))
     \/ (At(s, j) = "0" /\ InRange(At(s, j + 1), 1, 9))
     \/ (At(s, j) = " " /\ InRange(At(s, j + 1), 1, 9))
  THEN 2
  ELSE IF InRange(At(s, j), 1, 9) THEN 1 ELSE 0

\* The m alternatives after which a d alternative matches: re.match backtracks
\* over m until the whole pattern matches, and takes the first that does.
MChoices(s) == SelectSeq(MAlts(s, 5), LAMBDA ml : DLen(s, 5 + ml) > 0)

Num(s, i, n) ==
  IF n = 2 THEN (IF At(s, i) = " " THEN 0 ELSE DigitVal(At(s, i))) * 10
                + DigitVal(At(s, i + 1))
  ELSE DigitVal(At(s, i))

IsLeap(y) == (y % 4 = 0) /\ ((y % 100 # 0) \/ (y % 400 = 0))

DaysInMonth(y, m) ==
  IF m = 2 THEN (IF IsLeap(y) THEN 29 ELSE 28)
  ELSE IF m \in {4, 6, 9, 11} THEN 30 ELSE 31

\* time.strptime(dt, '%Y%m%d'): [ok, y, m, d]; ok is FALSE where it raises
\* ValueError (no match, unconverted data remains, or no such calendar day).
Strptime(s) ==
  IF ~YMatch(s) \/ MChoices(s) = <<>>
  THEN [ok |-> FALSE, y |-> 0, m |-> 0, d |-> 0]
  ELSE LET ml == Head(MChoices(s))
           dl == DLen(s, 5 + ml)
           y == 1000 * DigitVal(s[1]) + 100 * DigitVal(s[2])
                + 10 * DigitVal(s[3]) + DigitVal(s[4])
           m == Num(s, 5, ml)
           d == Num(s, 5 + ml, dl)
       IN [ok |-> /\ 4 + ml + dl = Len(s)
                  /\ y >= 1
                  /\ d <= DaysInMonth(y, m),
           y |-> y, m |-> m, d |-> d]

TwoDigits(n) == <<DigitChars[(n \div 10) + 1], DigitChars[(n % 10) + 1]>>

\* time.strftime('%Y-%m-%d') for the years of the model, which have four digits.
Strftime(t) ==
  <<DigitChars[(t.y \div 1000) + 1], DigitChars[((t.y \div 100) % 10) + 1],
    DigitChars[((t.y \div 10) % 10) + 1], DigitChars[(t.y % 10) + 1]>>
  \o <<"-">> \o TwoDigits(t.m) \o <<"-">> \o TwoDigits(t.d)

\* ReleasableAircraft.format_date: [raised, val]; '' for a falsy dt, else the
\* reformatted date; raised where strptime raises ValueError.
FormatDate(dt) ==
  IF dt = NoneVal \/ dt = <<>> THEN [raised |-> FALSE, val |-> <<>>]
  ELSE IF Strptime(dt).ok THEN [raised |-> FALSE, val |-> Strftime(Strptime(dt))]
  ELSE [raised |-> TRUE, val |-> <<>>]

\* ------------------------------------------------------------------------
\* read_file
\* ------------------------------------------------------------------------
\* header = [_tidy_header(x) for x in next(reader)[:-1]]; the header lines of
\* the model hold tidied tokens.
HeaderOf(line) == DropLast(line)

\* collections.namedtuple('row', header) raises ValueError unless every field
\* name is an identifier and no name occurs twice; '' is the one token of
\* the model that is no identifier.
NamedTupleRaises(header) ==
  \/ \E i \in 1..Len(header) : header[i] = ""
  \/ \E i, j \in 1..Len(header) : i # j /\ header[i] = header[j]

\* dat = [x.strip() for x in r[:-1]]
Dat(r) == [i \in 1..Len(DropLast(r)) |-> Strip(r[i])]

YieldsAtLeast(header, r) == Len(Dat(r)) >= Len(header)

\* if len(dat) == len(header)
Yields(header, r) == Len(Dat(r)) = Len(header)

\* row(*dat): the record that maps each field name to its value
Row(header, dat) ==
  [k \in {header[i] : i \in 1..Len(header)} |->
     dat[CHOOSE i \in 1..Len(header) : header[i] = k]]

\* ------------------------------------------------------------------------
\* The archive: the three members parse_drone_data reads
\* ------------------------------------------------------------------------
\* The header line of each member after _tidy_header, with the columns the
\* program reads by name and the trailing artifact column every line ends in.
\* mfr stands for the four columns copied from the reference entry (mfr,
\* model, no_eng, ac_weight), n_number for the columns copied from the
\* registration entry.
ACFTREF_HEADER == <<"code", "mfr", "type_acft", "type_eng", "">>

MASTER_HEADER ==
  <<"n_number", "mfr_mdl_code", "type_aircraft", "type_engine",
    "cert_issue_date", "air_worth_date", "last_action_date", "">>

DEREG_HEADER ==
  <<"n_number", "mfr_mdl_code", "cert_issue_date", "air_worth_date",
    "last_act_date", "cancel_date", "">>

DRONE_AIRCRAFT_TYPE == <<"6">>
DRONE_ENGINE_TYPE == <<"1", "0">>

\* The columns of DRONE_DATA_HEADERS the model writes, in their order.
DRONE_DATA_HEADERS ==
  <<"n_number", "mfr_mdl_code", "mfr", "cert_issue_date",
    "airworthiness_date", "last_action_date", "cancel_date">>

E == <<>>
A1 == <<"A", "1">>
B2 == <<"B", "2">>
GoodDate == <<"2", "0", "2", "3", "0", "1", "1", "5">>
CancelDate == <<"2", "0", "2", "2", "0", "1", "0", "1">>
ShortDate == <<"2", "0", "2", "2", "0", "1", "1">>
BadDate == <<"2", "0", "2", "3", "x">>

\* Data rows of ACFTREF.txt: code, mfr, type_acft, type_eng, artifact
RefRows ==
  { <<A1, <<"X">>, <<"6">>, <<"1", "0">>, E>>,
    <<<<"A", "1", " ">>, <<"Y">>, <<"6", " ">>, <<"1", "0">>, E>>,
    <<A1, <<"Z">>, <<"6">>, <<"1">>, E>>,
    <<A1, <<"V">>, <<"6">>, <<"1", "0">>>> }

\* Data rows of MASTER.txt: n_number, mfr_mdl_code, type_aircraft,
\* type_engine, cert_issue_date, air_worth_date, last_action_date, artifact
MasterRows ==
  { <<<<"N", "1">>, A1, <<"6">>, <<"1", "0">>, GoodDate, E, E, E>>,
    <<<<"N", "2">>, A1, <<"6">>, <<"1">>, E, E, E, E>>,
    <<<<"N", "3">>, <<"B", "2", " ">>, <<"6">>, <<"1", "0">>, E, E, GoodDate, E>>,
    <<<<"N", "4">>, A1, <<"6">>, <<"1", "0">>, E, BadDate, E, E>>,
    <<<<"N", "5">>, A1, <<"4">>, <<"1", "0">>, BadDate, E, E, E>>,
    <<<<"N", "6">>, A1, <<"6">>, <<"1", "0">>, E, E, E, E, E>> }

\* Data rows of DEREG.txt: n_number, mfr_mdl_code, cert_issue_date,
\* air_worth_date, last_act_date, cancel_date, artifact
DeregRows ==
  { <<<<"N", "1">>, A1, E, E, E, CancelDate, E>>,
    <<<<"N", "8">>, A1, GoodDate, E, E, E, E>>,
    <<<<"N", "9">>, A1, E, E, E, BadDate, E>>,
    <<<<"N", "9">>, B2, E, E, BadDate, E, E>>,
    <<<<"N", "1">>, A1, E, E, E, ShortDate, E>>,
    <<>> }

Absent == [present |-> FALSE, rows |-> <<>>]

NoFile == [exists |-> FALSE, head |-> <<>>, rows |-> <<>>]

\* A file left at `outfile` by an earlier run.
StaleFile ==
  [exists |-> TRUE, head |-> <<DRONE_DATA_HEADERS>>,
   rows |-> << <<<<"N", "0">>, A1, <<"X">>, E, E, E, E>> >>]

\* ------------------------------------------------------------------------
\* parse_drone_data
\* ------------------------------------------------------------------------
IsDronePrefix(acft_type, eng_type) ==
  /\ acft_type # <<>> /\ Head(acft_type) = Head(DRONE_AIRCRAFT_TYPE)
  /\ eng_type # <<>> /\ Head(eng_type) = Head(DRONE_ENGINE_TYPE)

\* is_drone
IsDrone(acft_type, eng_type) ==
  (acft_type = DRONE_AIRCRAFT_TYPE) /\ (eng_type = DRONE_ENGINE_TYPE)

DictSetFirst(d, k, v) ==
  IF \E it \in d : it.key = k THEN d ELSE d \cup {[key |-> k, val |-> v]}

\* d[k] = v of a dict, held as its set of items
DictSet(d, k, v) == {it \in d : it.key # k} \cup {[key |-> k, val |-> v]}

DictGetAny(d, k) == {it.val : it \in d}

\* d.get(k): the values found, none for a miss (None)
DictGet(d, k) == {it.val : it \in {x \in d : x.key = k}}

\* `if mfr_mdl:` None is falsy, a namedtuple with a field is truthy
Truthy(hits) == hits # {}

OpenRaisesZipOnly(db, name) == ~db.valid

\* The first next() of read_file(name): zipfile.ZipFile raises BadZipFile on
\* an invalid archive, zfile.open raises KeyError on a missing member.
OpenRaises(db, name) == ~db.valid \/ ~db.members[name].present

WriteRowDedup(f, line) ==
  IF \E i \in 1..Len(f.rows) : f.rows[i][1] = line[1] THEN f
  ELSE [f EXCEPT !.rows = Append(@, line)]

\* writer.writerow(line) for a data row
WriteRow(f, line) == [f EXCEPT !.rows = Append(@, line)]

MasterDates(ac) == <<ac.cert_issue_date, ac.air_worth_date, ac.last_action_date>>

DeregDates(ac) ==
  <<ac.cert_issue_date, ac.air_worth_date, ac.last_act_date, ac.cancel_date>>

DatesRaiseNever(dates) == FALSE

\* Building the row calls format_date on each date in turn; one that raises
\* ends parse_drone_data.
DatesRaise(dates) == \E i \in 1..Len(dates) : FormatDate(dates[i]).raised

DeregCancelEmpty(ac) == <<>>

\* The cancel_date column of a row from DEREG.txt
DeregCancel(ac) == FormatDate(ac.cancel_date).val

\* The row written for a record of MASTER.txt
MasterLine(ac, mm) ==
  <<ac.n_number, ac.mfr_mdl_code, mm.mfr,
    FormatDate(ac.cert_issue_date).val, FormatDate(ac.air_worth_date).val,
    FormatDate(ac.last_action_date).val, <<>>>>

\* The row written for a record of DEREG.txt
DeregLine(ac, mm) ==
  <<ac.n_number, ac.mfr_mdl_code, mm.mfr,
    FormatDate(ac.cert_issue_date).val, FormatDate(ac.air_worth_date).val,
    FormatDate(ac.last_act_date).val, DeregCancel(ac)>>

Rows(name) == database.members[name].rows

\* One entry of the history: the raw row consumed, what became of it (drop:
\* read_file did not yield it; skip: filtered out; keep: stored in the map;
\* write: a row was written; raise: a date raised), the number in the output
\* file of the data row written for it (0: none).
Event(src, r, what, line) ==
  [src |-> src, row |-> r, what |-> what, line |-> line]

\* ra.read_file('ACFTREF.txt') starts
OpenRef ==
  /\ pc = "start"
  /\ pc' = IF OpenRaises(database, "ACFTREF.txt") THEN "aborted" ELSE "ref"
  /\ pos' = 0
  /\ UNCHANGED <<database, outfile, mfr_mdls, outfile0, trace, fd, rf>>

\* One row of ACFTREF.txt through read_file and the dict comprehension
RefRow ==
  /\ pc = "ref"
  /\ pos < Len(Rows("ACFTREF.txt"))
  /\ LET r == Rows("ACFTREF.txt")[pos + 1]
         header == HeaderOf(ACFTREF_HEADER)
     IN IF ~Yields(header, r)
        THEN /\ mfr_mdls' = mfr_mdls
             /\ trace' = Append(trace, Event("ref", r, "drop", 0))
        ELSE LET mm == Row(header, Dat(r))
             IN IF IsDrone(mm.type_acft, mm.type_eng)
                THEN /\ mfr_mdls' = DictSet(mfr_mdls, mm.code, mm)
                     /\ trace' = Append(trace, Event("ref", r, "keep", 0))
                ELSE /\ mfr_mdls' = mfr_mdls
                     /\ trace' = Append(trace, Event("ref", r, "skip", 0))
  /\ pos' = pos + 1
  /\ UNCHANGED <<database, outfile, pc, outfile0, fd, rf>>

RefEndEarly ==
  /\ pc = "ref"
  /\ pos >= Len(Rows("ACFTREF.txt")) - 1
  /\ pc' = "open"
  /\ UNCHANGED <<database, outfile, pos, mfr_mdls, outfile0, trace, fd, rf>>

\* ACFTREF.txt is exhausted: mfr_mdls is complete
RefEnd ==
  /\ pc = "ref"
  /\ pos = Len(Rows("ACFTREF.txt"))
  /\ pc' = "open"
  /\ UNCHANGED <<database, outfile, pos, mfr_mdls, outfile0, trace, fd, rf>>

\* open(outfile, 'w') and writer.writerow(DRONE_DATA_HEADERS)
OpenOut ==
  /\ pc = "open"
  /\ outfile' = [exists |-> TRUE, head |-> <<DRONE_DATA_HEADERS>>, rows |-> <<>>]
  /\ pc' = "master_open"
  /\ UNCHANGED <<database, pos, mfr_mdls, outfile0, trace, fd, rf>>

\* ra.read_file('MASTER.txt') starts
OpenMaster ==
  /\ pc = "master_open"
  /\ pc' = IF OpenRaises(database, "MASTER.txt") THEN "aborted" ELSE "master"
  /\ pos' = 0
  /\ UNCHANGED <<database, outfile, mfr_mdls, outfile0, trace, fd, rf>>

\* One row of MASTER.txt through read_file and the body of the first loop
MasterRow ==
  /\ pc = "master"
  /\ pos < Len(Rows("MASTER.txt"))
  /\ LET r == Rows("MASTER.txt")[pos + 1]
         header == HeaderOf(MASTER_HEADER)
     IN IF ~Yields(header, r)
        THEN /\ outfile' = outfile /\ pc' = pc
             /\ trace' = Append(trace, Event("master", r, "drop", 0))
        ELSE LET ac == Row(header, Dat(r))
                 mfr_mdl == DictGet(mfr_mdls, ac.mfr_mdl_code)
             IN IF ~IsDrone(ac.type_aircraft, ac.type_engine) \/ ~Truthy(mfr_mdl)
                THEN /\ outfile' = outfile /\ pc' = pc
                     /\ trace' = Append(trace, Event("master", r, "skip", 0))
                ELSE IF DatesRaise(MasterDates(ac))
                THEN /\ outfile' = outfile /\ pc' = "aborted"
                     /\ trace' = Append(trace, Event("master", r, "raise", 0))
                ELSE /\ outfile' = WriteRow(outfile, MasterLine(ac, CHOOSE mm \in mfr_mdl : TRUE))
                     /\ pc' = pc
                     /\ trace' = Append(trace, Event("master", r, "write", Len(outfile'.rows)))
  /\ pos' = pos + 1
  /\ UNCHANGED <<database, mfr_mdls, outfile0, fd, rf>>

\* MASTER.txt is exhausted
MasterEnd ==
  /\ pc = "master"
  /\ pos = Len(Rows("MASTER.txt"))
  /\ pc' = "dereg_open"
  /\ UNCHANGED <<database, outfile, pos, mfr_mdls, outfile0, trace, fd, rf>>

\* ra.read_file('DEREG.txt') starts
OpenDereg ==
  /\ pc = "dereg_open"
  /\ pc' = IF OpenRaises(database, "DEREG.txt") THEN "aborted" ELSE "dereg"
  /\ pos' = 0
  /\ UNCHANGED <<database, outfile, mfr_mdls, outfile0, trace, fd, rf>>

\* One row of DEREG.txt through read_file and the body of the second loop
DeregRow ==
  /\ pc = "dereg"
  /\ pos < Len(Rows("DEREG.txt"))
  /\ LET r == Rows("DEREG.txt")[pos + 1]
         header == HeaderOf(DEREG_HEADER)
     IN IF ~Yields(header, r)
        THEN /\ outfile' = outfile /\ pc' = pc
             /\ trace' = Append(trace, Event("dereg", r, "drop", 0))
        ELSE LET ac == Row(header, Dat(r))
                 mfr_mdl == DictGet(mfr_mdls, ac.mfr_mdl_code)
             IN IF ~Truthy(mfr_mdl)
                THEN /\ outfile' = outfile /\ pc' = pc
                     /\ trace' = Append(trace, Event("dereg", r, "skip", 0))
                ELSE IF DatesRaise(DeregDates(ac))
                THEN /\ outfile' = outfile /\ pc' = "aborted"
                     /\ trace' = Append(trace, Event("dereg", r, "raise", 0))
                ELSE /\ outfile' = WriteRow(outfile, DeregLine(ac, CHOOSE mm \in mfr_mdl : TRUE))
                     /\ pc' = pc
                     /\ trace' = Append(trace, Event("dereg", r, "write", Len(outfile'.rows)))
  /\ pos' = pos + 1
  /\ UNCHANGED <<database, mfr_mdls, outfile0, fd, rf>>

\* DEREG.txt is exhausted: the output file is closed
DeregEnd ==
  /\ pc = "dereg"
  /\ pos = Len(Rows("DEREG.txt"))
  /\ pc' = "done"
  /\ UNCHANGED <<database, outfile, pos, mfr_mdls, outfile0, trace, fd, rf>>

FdIdle == [dt |-> <<>>, ret |-> [raised |-> FALSE, val |-> <<>>], called |-> FALSE]

RfIdle ==
  [header |-> <<>>, rows |-> <<>>, state |-> "idle", n |-> 0, log |-> <<>>,
   yielded |-> <<>>]

MemberNames == {"ACFTREF.txt", "MASTER.txt", "DEREG.txt"}

\* After ra = ReleasableAircraft(database_path): the archive bytes are loaded.
\* An invalid archive has no members; a valid one holds each member or lacks it.
Init ==
  /\ \E v, pr, pm, pd \in BOOLEAN :
     \E a \in 0..MaxRows : \E b \in 0..(MaxRows - a) : \E c \in 0..(MaxRows - a - b) :
     \E r \in [1..a -> RefRows], m \in [1..b -> MasterRows], d \in [1..c -> DeregRows] :
       /\ ~v => (~pr /\ ~pm /\ ~pd)
       /\ ~pr => a = 0
       /\ ~pm => b = 0
       /\ ~pd => c = 0
       /\ database =
            [valid |-> v,
             members |->
               [n \in MemberNames |->
                  CASE n = "ACFTREF.txt" -> [present |-> pr, rows |-> r]
                    [] n = "MASTER.txt" -> [present |-> pm, rows |-> m]
                    [] n = "DEREG.txt" -> [present |-> pd, rows |-> d]]]
  /\ outfile0 \in {NoFile, StaleFile}
  /\ outfile = outfile0
  /\ pc = "start"
  /\ pos = 0
  /\ mfr_mdls = {}
  /\ trace = <<>>
  /\ fd = FdIdle
  /\ rf = RfIdle

Next ==
  \/ OpenRef \/ RefRow \/ RefEnd \/ OpenOut
  \/ OpenMaster \/ MasterRow \/ MasterEnd
  \/ OpenDereg \/ DeregRow \/ DeregEnd

Spec == Init /\ [][Next]_vars

\* ------------------------------------------------------------------------
\* format_date alone: one call on each input of DateInputs
\* ------------------------------------------------------------------------
DateAlphabet == {"0", "1", "2", "3", "9", "x", " "}

StrsUpTo(S, n) == UNION {[1..k -> S] : k \in 0..n}

DateYears == {<<"2", "0", "2", "3">>, <<"2", "0", "2", "4">>}

DateInputs ==
  {NoneVal} \cup StrsUpTo(DateAlphabet, MaxShort)
  \cup {y \o t : y \in DateYears, t \in StrsUpTo(DateAlphabet, MaxTail)}

PipeIdle ==
  /\ database = [valid |-> FALSE, members |-> [n \in MemberNames |-> Absent]]
  /\ outfile0 = NoFile
  /\ outfile = NoFile
  /\ pc = "idle"
  /\ pos = 0
  /\ mfr_mdls = {}
  /\ trace = <<>>

InitDate ==
  /\ PipeIdle
  /\ rf = RfIdle
  /\ \E dt \in DateInputs : fd = [FdIdle EXCEPT !.dt = dt]

\* ra.format_date(dt)
CallFormatDate ==
  /\ ~fd.called
  /\ fd' = [fd EXCEPT !.ret = FormatDate(fd.dt), !.called = TRUE]
  /\ UNCHANGED <<database, outfile, pc, pos, mfr_mdls, outfile0, trace, rf>>

NextDate == CallFormatDate

SpecDate == InitDate /\ [][NextDate]_vars

\* ------------------------------------------------------------------------
\* read_file alone, on one member with any header line
\* ------------------------------------------------------------------------
FieldNames == <<"f1", "f2", "f3", "f4">>

\* A header line of k columns, the last the trailing artifact
PlainHeader(k) == [i \in 1..k |-> IF i = k THEN "" ELSE FieldNames[i]]

\* Header lines: well formed, with an empty column name, with a name twice
HeaderLines ==
  {PlainHeader(k) : k \in 0..(MaxCols + 1)}
  \cup {[PlainHeader(k) EXCEPT ![1] = ""] : k \in 2..(MaxCols + 1)}
  \cup {[PlainHeader(k) EXCEPT ![2] = FieldNames[1]] : k \in 3..(MaxCols + 1)}

PlainRow(n) == [i \in 1..n |-> <<DigitChars[i]>>]

PaddedRow(n) == [i \in 1..n |-> <<" ", DigitChars[i], " ">>]

\* Data rows of 0 to MaxCols + 2 fields
DataRows == {PlainRow(n) : n \in 0..(MaxCols + 2)} \cup {PaddedRow(n) : n \in 2..3}

InitRead ==
  /\ PipeIdle
  /\ fd = FdIdle
  /\ \E h \in HeaderLines, rows \in StrsUpTo(DataRows, MaxRfRows) :
       rf = [RfIdle EXCEPT !.header = h, !.rows = rows, !.state = "start"]

\* The generator up to its loop: the header is read and the namedtuple made
ReadHeader ==
  /\ rf.state = "start"
  /\ rf' = [rf EXCEPT !.state =
              IF NamedTupleRaises(HeaderOf(rf.header)) THEN "raised" ELSE "rows"]
  /\ UNCHANGED <<database, outfile, pc, pos, mfr_mdls, outfile0, trace, fd>>

\* One turn of `for r in reader`
ReadRow ==
  /\ rf.state = "rows"
  /\ rf.n < Len(rf.rows)
  /\ LET r == rf.rows[rf.n + 1]
         header == HeaderOf(rf.header)
     IN rf' = IF Yields(header, r)
              THEN [rf EXCEPT !.n = @ + 1, !.log = Append(@, TRUE),
                              !.yielded = Append(@, Row(header, Dat(r)))]
              ELSE [rf EXCEPT !.n = @ + 1, !.log = Append(@, FALSE)]
  /\ UNCHANGED <<database, outfile, pc, pos, mfr_mdls, outfile0, trace, fd>>

\* The reader is exhausted
ReadEnd ==
  /\ rf.state = "rows"
  /\ rf.n = Len(rf.rows)
  /\ rf' = [rf EXCEPT !.state = "done"]
  /\ UNCHANGED <<database, outfile, pc, pos, mfr_mdls, outfile0, trace, fd>>

NextRead == ReadHeader \/ ReadRow \/ ReadEnd

SpecRead == InitRead /\ [][NextRead]_vars

\* ------------------------------------------------------------------------
\* The vocabulary of the properties, defined from the tables alone
\* ------------------------------------------------------------------------
\* The row has as many fields as the header line, the last column of each dropped
SameCount(line, r) == Len(DropLast(r)) = Len(DropLast(line))

\* The trimmed field of row r under the column `name` of the header line
Field(line, r, name) ==
  Strip(r[CHOOSE j \in 1..(Len(line) - 1) : line[j] = name])

\* The drone predicate: exactly '6' and '10'
DronePair(acft, eng) == acft = <<"6">> /\ eng = <<"1", "0">>

Keys(d) == {it.key : it \in d}

AllDigits(s) == \A i \in 1..Len(s) : IsDigit(s[i])

\* A calendar date written YYYYMMDD
ValidYYYYMMDD(s) ==
  /\ Len(s) = 8
  /\ AllDigits(s)
  /\ LET y == 1000 * DigitVal(s[1]) + 100 * DigitVal(s[2])
              + 10 * DigitVal(s[3]) + DigitVal(s[4])
         m == 10 * DigitVal(s[5]) + DigitVal(s[6])
         d == 10 * DigitVal(s[7]) + DigitVal(s[8])
     IN y >= 1 /\ m \in 1..12 /\ d >= 1 /\ d <= DaysInMonth(y, m)

\* YYYYMMDD as YYYY-MM-DD
Reformatted(s) ==
  SubSeq(s, 1, 4) \o <<"-">> \o SubSeq(s, 5, 6) \o <<"-">> \o SubSeq(s, 7, 8)

\* A string of the shape dddd-dd-dd
IsIsoDate(s) ==
  /\ Len(s) = 10
  /\ s[5] = "-" /\ s[8] = "-"
  /\ \A i \in {1, 2, 3, 4, 6, 7, 9, 10} : IsDigit(s[i])

\* ------------------------------------------------------------------------
\* C7 (format_date)
\* ------------------------------------------------------------------------
\* C7: format_date returns '' for an empty or None input, 'YYYY-MM-DD' for a
\* valid 8-digit 'YYYYMMDD' input, and raises for every other non-empty
\* input, such as the 7-digit '2023011'.
C7_FormatDateStrict ==
  fd.called =>
    IF fd.dt = NoneVal \/ fd.dt = <<>>
    THEN ~fd.ret.raised /\ fd.ret.val = <<>>
    ELSE IF ValidYYYYMMDD(fd.dt)
         THEN ~fd.ret.raised /\ fd.ret.val = Reformatted(fd.dt)
         ELSE fd.ret.raised

\* ------------------------------------------------------------------------
\* C3 (read_file)
\* ------------------------------------------------------------------------
RfConsumed == SubSeq(rf.rows, 1, rf.n)

\* The records of the rows whose field count matches, in the rows' order
ExpectedYield(line, rows) ==
  LET sel == SelectSeq(rows, LAMBDA r : SameCount(line, r))
  IN [i \in 1..Len(sel) |->
        [k \in {line[j] : j \in 1..(Len(line) - 1)} |-> Field(line, sel[i], k)]]

\* A row with one field more than the header line, one fewer, or none
OffByOne(line, r) ==
  Len(r) = Len(line) + 1 \/ Len(r) = Len(line) - 1 \/ Len(r) = 0

RfYieldsIff ==
  /\ \A k \in 1..rf.n : rf.log[k] <=> SameCount(rf.header, rf.rows[k])
  /\ rf.yielded = ExpectedYield(rf.header, RfConsumed)

\* C3 as claimed: for every header line and every row read, a Record is
\* yielded iff the counts agree; a row with one extra field, one fewer or
\* none is dropped; the rows around a dropped row are yielded in order.
C3_Original ==
  rf.state \in {"rows", "done"} =>
    /\ RfYieldsIff
    /\ \A k \in 1..rf.n : OffByOne(rf.header, rf.rows[k]) => ~rf.log[k]

\* C3 amended: read_file raises exactly when the header names are no valid
\* namedtuple fields, before any row; otherwise a Record is yielded for a row
\* iff its field count after dropping the last column equals the header's,
\* the records come in the rows' order, and when the header keeps at least
\* one field a row with one extra field, one fewer or none is dropped.
C3_ReadFile ==
  /\ rf.state = "raised" => NamedTupleRaises(DropLast(rf.header)) /\ rf.n = 0
  /\ rf.state \in {"rows", "done"} =>
       /\ ~NamedTupleRaises(DropLast(rf.header))
       /\ RfYieldsIff
       /\ Len(rf.header) >= 2 =>
            \A k \in 1..rf.n : OffByOne(rf.header, rf.rows[k]) => ~rf.log[k]

\* A row with one field too many is dropped between two rows that are yielded.
C3_Witness ==
  /\ rf.state = "done"
  /\ Len(rf.header) >= 2
  /\ \E k \in 2..(rf.n - 1) :
       /\ Len(rf.rows[k]) = Len(rf.header) + 1
       /\ ~rf.log[k] /\ rf.log[k - 1] /\ rf.log[k + 1]
       /\ Len(rf.yielded) = 2

\* ------------------------------------------------------------------------
\* The history of a run of parse_drone_data, read against the tables
\* ------------------------------------------------------------------------
HeaderLine(src) ==
  CASE src = "ref" -> ACFTREF_HEADER
    [] src = "master" -> MASTER_HEADER
    [] src = "dereg" -> DEREG_HEADER

MemberOf(src) ==
  CASE src = "ref" -> "ACFTREF.txt"
    [] src = "master" -> "MASTER.txt"
    [] src = "dereg" -> "DEREG.txt"

Rank(src) == CASE src = "ref" -> 1 [] src = "master" -> 2 [] src = "dereg" -> 3

\* The entries of the history that are records of the member src
Records(src) ==
  {i \in 1..Len(trace) :
     trace[i].src = src /\ SameCount(HeaderLine(src), trace[i].row)}

F(i, name) == Field(HeaderLine(trace[i].src), trace[i].row, name)

\* The date fields format_date is given for a record of the member src
DateColumns(src) ==
  IF src = "master" THEN {"cert_issue_date", "air_worth_date", "last_action_date"}
  ELSE {"cert_issue_date", "air_worth_date", "last_act_date", "cancel_date"}

\* Some date of the row fails date parsing
BadDateIn(src, r) ==
  \E c \in DateColumns(src) : FormatDate(Field(HeaderLine(src), r, c)).raised

\* The filter selects the row for output, given the reference map d
Selected(src, r, d) ==
  /\ SameCount(HeaderLine(src), r)
  /\ src = "master" =>
       DronePair(Field(MASTER_HEADER, r, "type_aircraft"),
                 Field(MASTER_HEADER, r, "type_engine"))
  /\ Field(HeaderLine(src), r, "mfr_mdl_code") \in Keys(d)

\* Entry i of the history wrote a data row, and the file holds it
Wrote(i) ==
  /\ trace[i].line >= 1
  /\ trace[i].line <= Len(outfile.rows)
  /\ outfile.rows[trace[i].line][1] = F(i, "n_number")

\* The run ended at entry i, in format_date
AbortedAt(i) == pc = "aborted" /\ pos >= 1 /\ i = Len(trace)

\* ------------------------------------------------------------------------
\* C1 (the active table)
\* ------------------------------------------------------------------------
\* C1 as claimed: for every record of MASTER.txt, a row is written iff the
\* record passes the drone predicate and its code is a key of the map.
C1_Original ==
  \A i \in Records("master") :
    Wrote(i) <=> Selected("master", trace[i].row, mfr_mdls)

\* C1 amended: for every record of MASTER.txt, a row is written iff the
\* record passes the drone predicate, its code is a key of the map, and none
\* of its three dates fails date parsing; a record the filter selects with a
\* date that fails ends the run with no row written for it.
C1_ActiveFilter ==
  \A i \in Records("master") :
    /\ Wrote(i) <=> /\ Selected("master", trace[i].row, mfr_mdls)
                    /\ ~BadDateIn("master", trace[i].row)
    /\ (Selected("master", trace[i].row, mfr_mdls)
        /\ BadDateIn("master", trace[i].row)) => AbortedAt(i)

\* One record fails the predicate with its code in the map, another passes
\* it with its code not in the map; neither is written.
C1_Witness ==
  \E i, j \in Records("master") :
    /\ ~DronePair(F(i, "type_aircraft"), F(i, "type_engine"))
    /\ F(i, "mfr_mdl_code") \in Keys(mfr_mdls)
    /\ DronePair(F(j, "type_aircraft"), F(j, "type_engine"))
    /\ F(j, "mfr_mdl_code") \notin Keys(mfr_mdls)
    /\ ~Wrote(i) /\ ~Wrote(j)
    /\ pc = "done"

\* ------------------------------------------------------------------------
\* C2 (the deregistered table)
\* ------------------------------------------------------------------------
\* C2 as claimed: for every record of DEREG.txt, a row is written iff its
\* code is a key of the map; a miss skips the record without raising.
C2_Original ==
  \A i \in Records("dereg") :
    /\ Wrote(i) <=> Selected("dereg", trace[i].row, mfr_mdls)
    /\ ~Selected("dereg", trace[i].row, mfr_mdls) => ~AbortedAt(i)

\* C2 amended: for every record of DEREG.txt, a row is written iff its code
\* is a key of the map and none of its four dates fails date parsing; a hit
\* with a date that fails ends the run with no row written for it; a miss
\* skips the record without raising, whatever its dates.
C2_DeregFilter ==
  \A i \in Records("dereg") :
    /\ Wrote(i) <=> /\ Selected("dereg", trace[i].row, mfr_mdls)
                    /\ ~BadDateIn("dereg", trace[i].row)
    /\ (Selected("dereg", trace[i].row, mfr_mdls)
        /\ BadDateIn("dereg", trace[i].row)) => AbortedAt(i)
    /\ ~Selected("dereg", trace[i].row, mfr_mdls) => ~AbortedAt(i)

\* A hit is written and a miss with a malformed date is skipped: the run ends
\* normally.
C2_Witness ==
  /\ pc = "done"
  /\ \E i, j \in Records("dereg") :
       /\ Wrote(i)
       /\ F(j, "mfr_mdl_code") \notin Keys(mfr_mdls)
       /\ BadDateIn("dereg", trace[j].row)
       /\ ~Wrote(j)

\* ------------------------------------------------------------------------
\* C5 (the reference map)
\* ------------------------------------------------------------------------
\* The run is past the dict comprehension
MapBuilt == pc \in {"open", "master_open", "master", "dereg_open", "dereg", "done"}
              \/ (pc = "aborted" /\ outfile.exists /\ outfile # outfile0)

RefTable == Rows("ACFTREF.txt")

\* The entries of ACFTREF.txt with the code c, by their row numbers
WithCode(c) ==
  {k \in 1..Len(RefTable) :
     SameCount(ACFTREF_HEADER, RefTable[k])
     /\ Field(ACFTREF_HEADER, RefTable[k], "code") = c}

IsDroneEntry(k) ==
  DronePair(Field(ACFTREF_HEADER, RefTable[k], "type_acft"),
            Field(ACFTREF_HEADER, RefTable[k], "type_eng"))

\* The entry at row k, as the record the map stores
EntryAt(k) ==
  [n \in {"code", "mfr", "type_acft", "type_eng"} |->
     Field(ACFTREF_HEADER, RefTable[k], n)]

Last(S) == CHOOSE k \in S : \A j \in S : j <= k

KeysAreDroneCodes ==
  /\ \A c \in Keys(mfr_mdls) : \E k \in WithCode(c) : IsDroneEntry(k)
  /\ \A k \in 1..Len(RefTable) :
       (SameCount(ACFTREF_HEADER, RefTable[k]) /\ IsDroneEntry(k))
         => Field(ACFTREF_HEADER, RefTable[k], "code") \in Keys(mfr_mdls)
  /\ \A it, jt \in mfr_mdls : it.key = jt.key => it = jt

\* C5 as claimed: a code is a key iff some entry with that code satisfies the
\* drone predicate, and the value stored is the last entry of the table with
\* that code.
C5_Original ==
  MapBuilt =>
    /\ KeysAreDroneCodes
    /\ \A it \in mfr_mdls : it.val = EntryAt(Last(WithCode(it.key)))

\* C5 amended: a code is a key iff some entry with that code satisfies the
\* drone predicate, and the value stored is the last entry of the table with
\* that code among those that satisfy the drone predicate.
C5_ReferenceMap ==
  MapBuilt =>
    /\ KeysAreDroneCodes
    /\ \A it \in mfr_mdls :
         it.val = EntryAt(Last({k \in WithCode(it.key) : IsDroneEntry(k)}))

\* Two drone entries share a code and the map holds the second.
C5_Witness ==
  /\ MapBuilt
  /\ \E j, k \in 1..Len(RefTable) :
       /\ j < k
       /\ k \in WithCode(Field(ACFTREF_HEADER, RefTable[j], "code"))
       /\ SameCount(ACFTREF_HEADER, RefTable[j])
       /\ IsDroneEntry(j) /\ IsDroneEntry(k)
       /\ EntryAt(j) # EntryAt(k)
       /\ [key |-> EntryAt(k).code, val |-> EntryAt(k)] \in mfr_mdls

\* ------------------------------------------------------------------------
\* C4 (the order of the output)
\* ------------------------------------------------------------------------
\* The output file has been opened by this run
Opened == outfile.exists /\ (pc \in {"master_open", "master", "dereg_open", "dereg", "done"}
                             \/ (pc = "aborted" /\ MapBuilt))

\* The rows of the member src consumed so far, in the order consumed
Consumed(src) ==
  LET evs == SelectSeq(trace, LAMBDA e : e.src = src)
  IN [i \in 1..Len(evs) |-> evs[i].row]

\* The value of the map for the code of row r
EntryFor(src, r) ==
  (CHOOSE it \in mfr_mdls :
     it.key = Field(HeaderLine(src), r, "mfr_mdl_code")).val

\* The output row of a row of member src the filter selects
ExpectedLine(src, r) ==
  LET h == HeaderLine(src)
  IN <<Field(h, r, "n_number"), Field(h, r, "mfr_mdl_code"), EntryFor(src, r).mfr,
       FormatDate(Field(h, r, "cert_issue_date")).val,
       FormatDate(Field(h, r, "air_worth_date")).val,
       FormatDate(Field(h, r, IF src = "master" THEN "last_action_date"
                                              ELSE "last_act_date")).val,
       IF src = "master" THEN <<>>
       ELSE FormatDate(Field(h, r, "cancel_date")).val>>

\* The rows produced from the rows consumed of member src, in their order
Produced(src) ==
  LET sel == SelectSeq(Consumed(src),
                       LAMBDA r : Selected(src, r, mfr_mdls) /\ ~BadDateIn(src, r))
  IN [i \in 1..Len(sel) |-> ExpectedLine(src, sel[i])]

InSourceOrder(src) ==
  /\ Len(Consumed(src)) <= Len(Rows(MemberOf(src)))
  /\ Consumed(src) = SubSeq(Rows(MemberOf(src)), 1, Len(Consumed(src)))

\* C4: the data rows written are the rows produced from the active table, in
\* that table's order, followed by the rows produced from the deregistered
\* table, in that table's order; nothing is reordered or deduplicated.
C4_OutputOrder ==
  /\ InSourceOrder("master") /\ InSourceOrder("dereg")
  /\ Opened => outfile.rows = Produced("master") \o Produced("dereg")
  /\ pc = "done" =>
       /\ Len(Consumed("master")) = Len(Rows("MASTER.txt"))
       /\ Len(Consumed("dereg")) = Len(Rows("DEREG.txt"))

\* A tail number that qualifies in both tables is written twice, the row from
\* the active table first.
C4_Witness ==
  /\ pc = "done"
  /\ Len(outfile.rows) = 2
  /\ outfile.rows[1][1] = outfile.rows[2][1]
  /\ outfile.rows[1][7] = <<>>
  /\ outfile.rows[2][7] # <<>>
  /\ \E i \in Records("master"), j \in Records("dereg") :
       trace[i].line = 1 /\ trace[j].line = 2

\* ------------------------------------------------------------------------
\* C6 (cancel_date)
\* ------------------------------------------------------------------------
Written(src) == {i \in Records(src) : Wrote(i)}

CancelOf(i) == outfile.rows[trace[i].line][7]

\* C6 as claimed: a row from the active table has an empty cancel_date, a row
\* from the deregistered table a non-empty one, the record's cancellation
\* date as YYYY-MM-DD.
C6_Original ==
  /\ \A i \in Written("master") : CancelOf(i) = <<>>
  /\ \A i \in Written("dereg") :
       /\ CancelOf(i) # <<>>
       /\ IsIsoDate(CancelOf(i))
       /\ ValidYYYYMMDD(F(i, "cancel_date"))
            => CancelOf(i) = Reformatted(F(i, "cancel_date"))

\* C6 amended: a row from the active table has an empty cancel_date; a row
\* from the deregistered table has an empty cancel_date when the record's
\* cancellation date is empty, and otherwise a string of the shape
\* YYYY-MM-DD, which for a valid 8-digit date is that date reformatted.
C6_CancelDate ==
  /\ \A i \in Written("master") : CancelOf(i) = <<>>
  /\ \A i \in Written("dereg") :
       /\ F(i, "cancel_date") = <<>> => CancelOf(i) = <<>>
       /\ F(i, "cancel_date") # <<>> => IsIsoDate(CancelOf(i))
       /\ ValidYYYYMMDD(F(i, "cancel_date"))
            => CancelOf(i) = Reformatted(F(i, "cancel_date"))

\* A row from each table is in the file, the one from the deregistered table
\* with its cancellation date reformatted.
C6_Witness ==
  /\ Written("master") # {}
  /\ \E i \in Written("dereg") :
       /\ ValidYYYYMMDD(F(i, "cancel_date"))
       /\ CancelOf(i) = Reformatted(F(i, "cancel_date"))

\* ------------------------------------------------------------------------
\* C8 (malformed dates)
\* ------------------------------------------------------------------------
\* The records of a registration table, by their row numbers
TableRecords(src) ==
  {k \in 1..Len(Rows(MemberOf(src))) :
     SameCount(HeaderLine(src), Rows(MemberOf(src))[k])}

\* C8 as claimed: a record of either registration table with a date that
\* fails date parsing aborts the run, whether or not the filter would have
\* excluded the record: the run does not complete normally.
C8_Original ==
  pc = "done" =>
    \A src \in {"master", "dereg"} : \A k \in TableRecords(src) :
      ~BadDateIn(src, Rows(MemberOf(src))[k])

\* C8 amended: a record of either registration table that the filter selects
\* for output (the drone predicate and a key of the map for the active table,
\* a key of the map for the deregistered table) and that has a date that
\* fails date parsing aborts the run at that record: the run does not
\* complete normally.  The dates of a record the filter excludes are never
\* parsed and do not abort the run.
C8_SelectedDatesFatal ==
  /\ pc = "done" =>
       \A src \in {"master", "dereg"} : \A k \in TableRecords(src) :
         ~(Selected(src, Rows(MemberOf(src))[k], mfr_mdls)
           /\ BadDateIn(src, Rows(MemberOf(src))[k]))
  /\ \A i \in Records("master") \cup Records("dereg") :
       IF Selected(trace[i].src, trace[i].row, mfr_mdls)
          /\ BadDateIn(trace[i].src, trace[i].row)
       THEN AbortedAt(i)
       ELSE ~AbortedAt(i)

\* The run is aborted at a selected record with a malformed date, after a
\* record with a malformed date that the filter excluded.
C8_Witness ==
  /\ pc = "aborted"
  /\ Len(trace) >= 2
  /\ Len(trace) \in Records("master") \cup Records("dereg")
  /\ AbortedAt(Len(trace))
  /\ BadDateIn(trace[Len(trace)].src, trace[Len(trace)].row)
  /\ \E i \in Records("master") \cup Records("dereg") :
       /\ i < Len(trace)
       /\ BadDateIn(trace[i].src, trace[i].row)

\* ------------------------------------------------------------------------
\* C9 (the order of the phases)
\* ------------------------------------------------------------------------
Count(src) == Len(Consumed(src))

PhasesInOrder ==
  /\ \A i, j \in 1..Len(trace) : i < j => Rank(trace[i].src) <= Rank(trace[j].src)
  /\ InSourceOrder("ref") /\ InSourceOrder("master") /\ InSourceOrder("dereg")
  /\ Count("master") >= 1 => Count("ref") = Len(Rows("ACFTREF.txt"))
  /\ Count("dereg") >= 1 => Count("master") = Len(Rows("MASTER.txt"))

MapFrozen == (pc \notin {"start", "ref"}) => (mfr_mdls' = mfr_mdls)

\* C9: the reference map is built from the whole of ACFTREF.txt before the
\* first record of MASTER.txt is read, MASTER.txt is processed to its end
\* before the first record of DEREG.txt is read, and the map is not modified
\* after its construction, so every lookup sees the same map.
C9_PhaseOrder == [](PhasesInOrder) /\ [][MapFrozen]_vars

\* A run that read rows of all three members, the map holding an entry.
C9_Witness ==
  /\ pc = "done"
  /\ Count("ref") >= 1 /\ Count("master") >= 1 /\ Count("dereg") >= 1
  /\ mfr_mdls # {}

\* ------------------------------------------------------------------------
\* C10 (the output file at a fatal failure)
\* ------------------------------------------------------------------------
Present(name) == database.valid /\ database.members[name].present

HeaderOnly == [exists |-> TRUE, head |-> <<DRONE_DATA_HEADERS>>, rows |-> <<>>]

\* C10: with an invalid archive or no ACFTREF.txt the run aborts with the
\* output file as it was, neither created nor truncated; with no MASTER.txt
\* it aborts with the file truncated to the header; with no DEREG.txt, or at
\* a date error, it aborts with the header and every row emitted so far in
\* the file: nothing is rolled back.
C10_FailureOutput ==
  /\ ~Present("ACFTREF.txt") =>
       /\ pc \in {"start", "aborted"}
       /\ outfile = outfile0
  /\ (Present("ACFTREF.txt") /\ ~Present("MASTER.txt")) =>
       /\ pc \in {"start", "ref", "open", "master_open", "aborted"}
       /\ pc = "aborted" => outfile = HeaderOnly
  /\ (Present("ACFTREF.txt") /\ Present("MASTER.txt") /\ ~Present("DEREG.txt")) =>
       /\ pc # "done" /\ pc # "dereg"
       /\ (pc = "aborted" /\ pos = 0) =>
            /\ Count("master") = Len(Rows("MASTER.txt"))
            /\ outfile = [HeaderOnly EXCEPT !.rows = Produced("master")]
  /\ (pc = "aborted" /\ pos >= 1) =>
       /\ Len(trace) \in Records("master") \cup Records("dereg")
       /\ BadDateIn(trace[Len(trace)].src, trace[Len(trace)].row)
       /\ outfile = [HeaderOnly EXCEPT
                       !.rows = Produced("master") \o Produced("dereg")]

\* A date error in the second row of a table: the row written before it
\* stays in the file.
C10_Witness ==
  /\ pc = "aborted"
  /\ pos = 2
  /\ Len(outfile.rows) = 1
  /\ outfile0 = StaleFile

====
